---- MODULE Spec2Model ----
(***************************************************************************)
(* The content-production pipeline of app.py: one Streamlit session.       *)
(* Every widget interaction reruns main() from the top; the session state  *)
(* (step, blog_post, pin_data_list, generated_files) survives the reruns,  *)
(* main()'s locals do not.  A script run is modelled section by section    *)
(* (start, approval, media, one step per short-form unit); the sections of *)
(* one run follow each other without interleaving, as the script is        *)
(* single-threaded.  wait_for_video's polling loop is modelled poll by     *)
(* poll in its own specification, SpecPoll; fetch_articles and             *)
(* fact_check_content are applied to every input of a bounded set in       *)
(* SpecFetch and SpecFact; SpecTwoRuns follows a session through a second  *)
(* pipeline run.  gen.py's main is modelled beside app.py's in SpecBoth,   *)
(* where the two scripts are given the same button presses and the same    *)
(* answers of the services.                                                *)
(***************************************************************************)
EXTENDS Integers, Sequences, FiniteSets, TLC

VARIABLES
    step,             \* st.session_state.step
    blog_post,        \* st.session_state.blog_post: None, or the id of a draft text
    pin_data_list,    \* st.session_state.pin_data_list
    generated_files,  \* st.session_state.generated_files: filename -> payload
    config,           \* the sidebar configuration read by this run
    pc,               \* position of the current script run ("idle": no run)
    button,           \* the button whose st.button() returns True in this run
    feedback,         \* the "Feedback for Revision" text input
    reference_links,  \* main()'s local reference_links ("unbound" until line 220)
    draft,            \* main()'s local blog_post (line 224)
    fact_response,    \* the model response fact_check_content parsed in this run
                      \* (these four are read by lines 217-252 only, and the model
                      \* forgets them when the run leaves line 252)
    i,                \* generate_pinterest_content's loop index
    env,              \* what the external services answered to the last unit
    crashed,          \* the exception that ended this run, "" when none
    approval_shown,   \* the approval widgets were rendered by the latest run
    runs,             \* number of script runs so far
    nextDraft,        \* id of the next text the text-generation service returns
    mediaRun,         \* number of passes through the media section so far
    approved,         \* ids of the drafts on which Approve was pressed
    calls,            \* generate_image calls per unit (0: blog image) since Approve or
                      \* Start was last pressed
    approvedAt,       \* mediaRun when Approve or Start was last pressed
    runCalls,         \* the functions called by lines 217-252 of the current run
    attempted,        \* the units whose loop body was entered in this media pass
    runBegan,         \* the latest Start that stored a draft: the step it found and
                      \* the media passes made before it
    st_error,         \* the message of line 206, "" when this run passed line 205
    prompt_refs,      \* the References part of the prompt built by this run
    unit_calls,       \* the external calls made by the latest unit, in order
    discarded,        \* ids of the drafts that failed the fact check or were rejected
    wv_pc,            \* position inside wait_for_video ("off": not called)
    now,              \* time.time()
    start_time,       \* wait_for_video's local start_time
    polls,            \* status requests sent by this call
    last_poll,        \* the time at which the latest status request was sent
    wv_status,        \* what the latest status request answered
    wv_return,        \* what wait_for_video returned ("raise": an exception left it)
    wv_error,         \* the message wait_for_video gave to st.error
    upstream,         \* what the article search answered to fetch_articles' request
    fetched,          \* what fetch_articles did with it
    fc_response,      \* the text the model answered to fact_check_content's prompt
    fc_result,        \* what fact_check_content did with it
    g_step,           \* gen.py: st.session_state.step
    g_blog_post,      \* gen.py: st.session_state.blog_post
    g_pin_data_list,  \* gen.py: st.session_state.pin_data_list
    g_generated_files,\* gen.py: st.session_state.generated_files
    g_approval_shown, \* gen.py: the latest run rendered the approval widgets
    g_approved        \* gen.py: ids of the drafts for which Approve was pressed

appVars == <<step, blog_post, pin_data_list, generated_files, config, pc, button,
             feedback, reference_links, draft, fact_response, i, env, crashed,
             approval_shown, runs, nextDraft, mediaRun, approved, calls, approvedAt,
             runCalls, attempted, runBegan, st_error, prompt_refs, unit_calls,
             discarded>>
pollVars == <<wv_pc, now, start_time, polls, last_poll, wv_status, wv_return, wv_error>>
fnVars == <<upstream, fetched, fc_response, fc_result>>
genVars == <<g_step, g_blog_post, g_pin_data_list, g_generated_files,
             g_approval_shown, g_approved>>
vars == <<appVars, pollVars, fnVars, genVars>>

----------------------------------------------------------------------------
(* Bounds of the model *)
MaxPosts == 2        \* largest config["post_ratio"] explored
MaxRuns == 3         \* script runs explored
MaxLatency == 1      \* longest duration of one status request, in time units
MaxArticles == 6     \* longest upstream result list explored
MaxTokens == 4       \* longest fact-check response explored, in words

(* Program constants *)
MAX_REFERENCES == 5
POLL_TIMEOUT == 600
POLL_INTERVAL == 10
THRESHOLD == 60
PARSE_FAIL_SCORE == 50
CALL_FAIL_SCORE == 0

None == 0

----------------------------------------------------------------------------
(* Session-state helpers *)

VideoName(u) == "pinterest_video_" \o ToString(u) \o ".mp4"

\* the dict is rebound to a new one holding only the new entry
Put_rebound(g, k, v) == [f \in {k} |-> v]

\* generated_files[k] = v: a dict assignment adds the key or replaces its value
Put(g, k, v) == [f \in (DOMAIN g) \cup {k} |-> IF f = k THEN v ELSE g[f]]

\* what a configuration can lack: a field of required_fields (missing or
\* empty), or, in an uploaded config.json, the key outputs, the key post_ratio,
\* or a key read by the prompt of generate_blog_post
Lacks == {"required", "outputs", "post_ratio", "prompt"}

\* the configuration: the fields the pipeline branches on, and what it lacks.
\* The form always supplies every key; outputs can be left empty in it.
Configs ==
    [outputs : SUBSET {"blog", "pinterest"}, post_ratio : 1..MaxPosts, missing : {"none"}]
    \cup {[outputs |-> {"blog", "pinterest"}, post_ratio |-> 1, missing |-> m] :
            m \in Lacks}

\* line 205
Validates(c) == c.missing # "required"

\* no fallback text stands in for the missing references
ReferencesText_blank(links) ==
    IF links = "links" THEN "links" ELSE ""

\* lines 296 and 304
ReferencesText(links) ==
    IF links = "links" THEN "links" ELSE "Use general knowledge."

----------------------------------------------------------------------------
(* fact_check_content.  A response of the text-generation service is       *)
(* abstracted to what the parser looks at: whether there is any text,      *)
(* whether int(response.split("Confidence:")[1].split()[0]) succeeds and   *)
(* with which value, and whether " - " occurs.                             *)

ConfValues == {59, 60}

NoResponse == [text |-> FALSE, parsed |-> FALSE, conf |-> 0, delim |-> FALSE]

FactResponses ==
    {NoResponse}
    \cup {[text |-> TRUE, parsed |-> TRUE, conf |-> c, delim |-> TRUE] : c \in ConfValues}
    \cup {[text |-> TRUE, parsed |-> FALSE, conf |-> 0, delim |-> TRUE],
          [text |-> TRUE, parsed |-> TRUE, conf |-> 60, delim |-> FALSE]}

\* the threshold applied one line too generously: the fallback score passes
NotChecked == [called |-> FALSE, passed |-> FALSE, confidence |-> 0]

fact_check_content_lax(response) ==
    IF ~response.text THEN <<FALSE, CALL_FAIL_SCORE>>
    ELSE IF response.parsed /\ response.delim
         THEN <<response.conf >= PARSE_FAIL_SCORE, response.conf>>
         ELSE <<TRUE, PARSE_FAIL_SCORE>>

\* returns <<passed, confidence>>
fact_check_content(response) ==
    IF ~response.text THEN <<FALSE, CALL_FAIL_SCORE>>
    ELSE IF response.parsed /\ response.delim
         THEN <<response.conf >= THRESHOLD, response.conf>>
         ELSE <<FALSE, PARSE_FAIL_SCORE>>

----------------------------------------------------------------------------
(* The text of a fact-check response, as the sequence of its words (what   *)
(* str.split() yields; the words are joined by single spaces, and the      *)
(* empty sequence is the empty or absent response).                        *)

Words == {"Confidence:", "85", "59", "060", "-5", "150", "85%", "-", "looks"}

ResponseTexts == UNION {[1..n -> Words] : n \in 0..MaxTokens}

IntWords == {"85", "59", "060", "-5", "150"}

\* int() without the sign
IntOf_unsigned(w) ==
    CASE w = "85" -> 85 [] w = "59" -> 59 [] w = "060" -> 60 [] w = "-5" -> 5
      [] w = "150" -> 150

\* int(w) for the words it accepts; it raises ValueError on the others
IntOf(w) ==
    CASE w = "85" -> 85 [] w = "59" -> 59 [] w = "060" -> 60 [] w = "-5" -> -5
      [] w = "150" -> 150

\* response.split("Confidence:")[1].split()[0]: the word that follows the first
\* "Confidence:", << >> when the marker is absent or nothing stands between it
\* and the next marker or the end (IndexError)
AfterMarker(t) ==
    LET marks == {k \in DOMAIN t : t[k] = "Confidence:"}
    IN IF marks = {} THEN << >>
       ELSE LET k == CHOOSE m \in marks : \A n \in marks : m <= n
            IN IF k + 1 > Len(t) \/ t[k + 1] = "Confidence:" THEN << >>
               ELSE <<t[k + 1]>>

\* response.split(" - ")[1] exists: a "-" with a space on both sides
HasDelimiter(t) == \E k \in 2..(Len(t) - 1) : t[k] = "-"

\* the delimiter is not asked for
ParseResponse_nodelim(t) ==
    LET w == AfterMarker(t)
        isInt == w # << >> /\ w[1] \in IntWords
    IN [text |-> t # << >>, parsed |-> isInt,
        conf |-> IF isInt THEN IntOf(w[1]) ELSE 0, delim |-> TRUE]

\* lines 71-74: whether there is a response, whether line 73 yields an integer
\* and which, and whether line 74 finds the delimiter
ParseResponse(t) ==
    LET w == AfterMarker(t)
        isInt == w # << >> /\ w[1] \in IntWords
    IN [text |-> t # << >>, parsed |-> isInt,
        conf |-> IF isInt THEN IntOf(w[1]) ELSE 0, delim |-> HasDelimiter(t)]

----------------------------------------------------------------------------
(* fetch_articles.  A title is one of a few texts, a description one of    *)
(* them or null (the search service sends "description": null for an       *)
(* article without one).  str.lower and the substring test are given by their tables on    *)
(* these texts.                                                            *)

NullText == "<null>"

Texts == {"Yoga poses", "Stretch daily", "MINDFULNESS now", "Meditation 101",
          "Mentally strong"}

\* str.lower()
lower(t) ==
    CASE t = "Yoga poses" -> "yoga poses"
      [] t = "Stretch daily" -> "stretch daily"
      [] t = "MINDFULNESS now" -> "mindfulness now"
      [] t = "Meditation 101" -> "meditation 101"
      [] t = "Mentally strong" -> "mentally strong"
      [] OTHER -> t

\* keyword in t: the case-sensitive substring test
Occurs(keyword, t) ==
    CASE t = "mindfulness now" -> keyword = "mindfulness"
      [] t = "meditation 101" -> keyword = "meditation"
      [] t = "mentally strong" -> keyword = "mental"
      [] t = "MINDFULNESS now" -> keyword = "MINDFULNESS"
      [] t = "Meditation 101" -> keyword = "Meditation"
      [] t = "Mentally strong" -> keyword = "Mentally"
      [] OTHER -> FALSE

\* line 20
required_keywords == <<"mindfulness", "meditation", "stress", "mental">>

\* the (title, description) pairs an upstream article can have
ArticleKinds ==
    {<<"Yoga poses", "Stretch daily">>,
     <<"MINDFULNESS now", NullText>>,
     <<"Yoga poses", "Mentally strong">>,
     <<"Meditation 101", NullText>>,
     <<"Yoga poses", NullText>>}

\* response.json()['articles']: article k of the list has url k
ArticleLists ==
    UNION {[1..n -> ArticleKinds] : n \in 0..MaxArticles}

RECURSIVE KeywordTest(_, _)
\* line 24: any(... for keyword in required_keywords), from the k-th keyword
\* on: "pass", "fail", or "raise" when .lower() is called on null
KeywordTest(article, k) ==
    IF k > Len(required_keywords) THEN "fail"
    ELSE IF article[1] = NullText THEN "raise"
    ELSE IF Occurs(lower(required_keywords[k]), lower(article[1])) THEN "pass"
    ELSE IF article[2] = NullText THEN "raise"
    ELSE IF Occurs(lower(required_keywords[k]), lower(article[2])) THEN "pass"
    ELSE KeywordTest(article, k + 1)

RECURSIVE Filtered(_, _)
\* lines 21-25: the urls of the articles from position k on that pass the test
Filtered(articles, k) ==
    IF k > Len(articles) THEN << >>
    ELSE IF KeywordTest(articles[k], 1) = "pass"
         THEN <<k>> \o Filtered(articles, k + 1)
         ELSE Filtered(articles, k + 1)

\* filtered_articles[:5]
Head5(seq) == SubSeq(seq, 1, IF Len(seq) < MAX_REFERENCES THEN Len(seq) ELSE MAX_REFERENCES)

NoUpstream == [ok |-> FALSE, articles |-> << >>]

Upstreams == {NoUpstream} \cup {[ok |-> TRUE, articles |-> a] : a \in ArticleLists}

NotFetched == [called |-> FALSE, requests |-> 0, returned |-> << >>, raised |-> "",
               message |-> ""]

\* lines 12-29: what fetch_articles returns or raises, the message it shows, and
\* the requests it sent
fetch_articles(up) ==
    LET base == [called |-> TRUE, requests |-> 1, returned |-> << >>, raised |-> "",
                 message |-> ""]
    IN IF ~up.ok
       THEN [base EXCEPT !.message = "Error fetching articles"]
       ELSE IF up.articles = << >>
            THEN [base EXCEPT !.message = "No relevant articles found."]
            ELSE IF \E k \in DOMAIN up.articles : KeywordTest(up.articles[k], 1) = "raise"
                 THEN [base EXCEPT !.raised = "AttributeError"]
                 ELSE [base EXCEPT !.returned = Head5(Filtered(up.articles, 1))]

----------------------------------------------------------------------------
(* One short-form unit of generate_pinterest_content.  env is what each    *)
(* external call of the unit answers if it is made: text is the            *)
(* generation response ("None", or which label it lacks), video_url is     *)
(* what wait_for_video does (a URL, None after "failed", None after the    *)
(* timeout, or the requests.get of line 122 raising), the other fields     *)
(* say whether the call returned a value (TRUE) or None (FALSE).           *)

AllOk == [text |-> "ok", image_bytes |-> TRUE, upscaled_image |-> TRUE,
          image_uid |-> TRUE, render_uid |-> TRUE, video_url |-> "url",
          video_bytes |-> TRUE, pin_url |-> TRUE]

NoEnv == [AllOk EXCEPT !.text = "not_called"]

MalformedTexts == {"no_title", "no_description", "no_hashtags"}

\* every way a single call of the unit can fail
UnitEnvs ==
    {AllOk}
    \cup {[AllOk EXCEPT !.text = t] : t \in {"None"} \cup MalformedTexts}
    \cup {[AllOk EXCEPT ![f] = FALSE] :
            f \in {"image_bytes", "upscaled_image", "image_uid", "render_uid",
                   "video_bytes", "pin_url"}}
    \cup {[AllOk EXCEPT !.video_url = v] : v \in {"failed", "timeout", "raise"}}

\* lines 313-315: None.split raises AttributeError, a missing label IndexError
ParseRaises(e) ==
    IF e.text = "None" THEN "AttributeError"
    ELSE IF e.text \in MalformedTexts THEN "IndexError"
    ELSE ""

\* the ifs of lines 319-334 are left out: every step is called
UnitCalls_unguarded(e) ==
    <<"generate_content">> \o
    (IF ParseRaises(e) # "" THEN << >>
     ELSE <<"generate_image", "upscale_image", "upload_image_to_bannerbear",
            "create_video_rendering", "wait_for_video", "download_video",
            "upload_video_to_pinterest">>)

\* the external calls the unit makes, in order (the nested ifs of lines 318-335)
UnitCalls(e) ==
    <<"generate_content">> \o
    (IF ParseRaises(e) # "" THEN << >> ELSE <<"generate_image">> \o
    (IF ~e.image_bytes THEN << >> ELSE <<"upscale_image">> \o
    (IF ~e.upscaled_image THEN << >> ELSE <<"upload_image_to_bannerbear">> \o
    (IF ~e.image_uid THEN << >> ELSE <<"create_video_rendering">> \o
    (IF ~e.render_uid THEN << >> ELSE <<"wait_for_video">> \o
    (IF e.video_url # "url" THEN << >> ELSE <<"download_video">> \o
    (IF ~e.video_bytes THEN << >> ELSE <<"upload_video_to_pinterest">>)))))))

Has(seq, op) == \E k \in DOMAIN seq : seq[k] = op

\* the exception that escapes the unit, "" when none
UnitRaises(e) ==
    IF ParseRaises(e) # "" THEN ParseRaises(e)
    ELSE IF Has(UnitCalls(e), "wait_for_video") /\ e.video_url = "raise"
         THEN "ConnectionError"
         ELSE ""

\* the record is appended without looking at pin_url
UnitPublishes_unchecked(e) ==
    Has(UnitCalls(e), "upload_video_to_pinterest")

\* line 336: the publish call was reached and returned a URL
UnitPublishes(e) ==
    Has(UnitCalls(e), "upload_video_to_pinterest") /\ e.pin_url

\* lines 337-346
PinRecord(r, u) ==
    [Title |-> <<r, u>>, MediaURL |-> <<r, u>>, Board |-> "Mindfulness Tips"]

ZeroCalls == [u \in 0..MaxPosts |-> 0]

Count(seq, op) == Cardinality({k \in DOMAIN seq : seq[k] = op})

\* the log c after unit u made the calls seq
Logged(c, u, seq) == [c EXCEPT ![u] = @ + Count(seq, "generate_image")]

----------------------------------------------------------------------------
(* Initial state: lines 210-214, before the first interaction *)

\* neither fetch_articles nor fact_check_content is being looked at on its own
FnIdle ==
    /\ upstream = NoUpstream
    /\ fetched = NotFetched
    /\ fc_response = << >>
    /\ fc_result = NotChecked

\* gen.py lines 116-120
GenInit ==
    /\ g_step = "start"
    /\ g_blog_post = None
    /\ g_pin_data_list = << >>
    /\ g_generated_files = << >>
    /\ g_approval_shown = FALSE
    /\ g_approved = {}

Init ==
    /\ step = "start"
    /\ blog_post = None
    /\ pin_data_list = << >>
    /\ generated_files = << >>
    /\ config \in Configs
    /\ pc = "idle"
    /\ button = "none"
    /\ feedback = ""
    /\ reference_links = "unbound"
    /\ draft = None
    /\ fact_response = NoResponse
    /\ i = 0
    /\ env = NoEnv
    /\ crashed = ""
    /\ approval_shown = FALSE
    /\ runs = 0
    /\ nextDraft = 1
    /\ mediaRun = 0
    /\ approved = {}
    /\ calls = ZeroCalls
    /\ approvedAt = 0
    /\ runCalls = {}
    /\ attempted = {}
    /\ runBegan = [after |-> "start", passes |-> 0]
    /\ st_error = ""
    /\ prompt_refs = ""
    /\ unit_calls = << >>
    /\ discarded = {}
    /\ wv_pc = "off"
    /\ now = 0
    /\ start_time = 0
    /\ polls = 0
    /\ last_poll = 0
    /\ wv_status = "none"
    /\ wv_return = "none"
    /\ wv_error = ""
    /\ FnIdle
    /\ GenInit

Buttons == {"none", "Start Generation", "Approve Blog", "Reject Blog", "Revise Blog"}
ApprovalButtons == {"Approve Blog", "Reject Blog", "Revise Blog"}

(* A widget interaction starts a script run.  b is the button pressed     *)
(* ("none": a sidebar or text-input edit that leaves the fields of config  *)
(* as they are), fb the feedback text.  The approval widgets can be used   *)
(* only if the latest run rendered them.                                   *)
Interaction(b, fb) ==
    /\ pc = "idle"
    /\ b \in ApprovalButtons => approval_shown
    /\ fb # "" => approval_shown
    /\ button' = b
    /\ feedback' = fb
    /\ pc' = "start"
    /\ runs' = runs + 1
    /\ crashed' = ""
    /\ reference_links' = "unbound"
    /\ draft' = None
    /\ fact_response' = NoResponse
    /\ runCalls' = {}
    /\ i' = 0
    /\ env' = NoEnv
    /\ attempted' = {}
    /\ calls' = IF b = "Start Generation" THEN ZeroCalls ELSE calls
    /\ approvedAt' = IF b = "Start Generation" THEN mediaRun ELSE approvedAt
    /\ st_error' = ""
    /\ prompt_refs' = ""
    /\ unit_calls' = << >>
    /\ UNCHANGED <<step, blog_post, pin_data_list, generated_files, config,
                   approval_shown, nextDraft, mediaRun, approved, runBegan, discarded,
                   pollVars, fnVars, genVars>>

\* what fetch_articles does: the request fails, no relevant article, some
\* relevant articles, or the AttributeError of a null description
\* the session is followed for MaxRuns script runs
UserEvent(b, fb) ==
    /\ runs < MaxRuns
    /\ Interaction(b, fb)

FetchOutcomes == {"error", "empty", "articles", "raise"}

\* the approval checkpoint is skipped
SessionAfterStart_noapproval(bp, result) ==
    IF bp # None /\ result[1]
    THEN [step |-> "generate_images", blog_post |-> bp,
          generated_files |-> Put(generated_files, "blog_post.txt", <<"text", bp>>)]
    ELSE [step |-> step, blog_post |-> blog_post, generated_files |-> generated_files]

\* the draft is written to the manifest before the fact check is looked at
SessionAfterStart_unchecked(bp, result) ==
    IF bp # None /\ result[1]
    THEN [step |-> "approve_blog", blog_post |-> bp,
          generated_files |-> Put(generated_files, "blog_post.txt", <<"text", bp>>)]
    ELSE [step |-> step, blog_post |-> blog_post,
          generated_files |-> IF bp # None
                              THEN Put(generated_files, "blog_post.txt", <<"text", bp>>)
                              ELSE generated_files]

\* lines 225-232: the session state after Start generated bp and fact-checked it
SessionAfterStart(bp, result) ==
    IF bp # None /\ result[1]
    THEN [step |-> "approve_blog", blog_post |-> bp,
          generated_files |-> Put(generated_files, "blog_post.txt", <<"text", bp>>)]
    ELSE [step |-> step, blog_post |-> blog_post, generated_files |-> generated_files]

\* the exception that ends lines 217-224, "" when none: fetch_articles raises,
\* config["outputs"] (line 222) or a key of the prompt (lines 293-297) is absent
StartRaises(a) ==
    IF a = "raise" THEN "AttributeError"
    ELSE IF config.missing = "outputs" THEN "KeyError"
    ELSE IF config.outputs # {} /\ config.missing = "prompt" THEN "KeyError"
    ELSE ""

(* lines 203-207 and 217-232; a, text and resp are what the article search, *)
(* the text generation and the fact check answer                           *)
StartRun(a, text, resp) ==
    /\ pc = "start"
    /\ IF ~Validates(config)
       THEN /\ st_error' = "Missing required fields in config."
            /\ pc' = "idle"
            /\ approval_shown' = FALSE
            /\ UNCHANGED <<reference_links, draft, nextDraft, fact_response, runCalls,
                           step, blog_post, generated_files, runBegan, crashed,
                           prompt_refs, discarded>>
       ELSE IF button # "Start Generation"
       THEN /\ pc' = "approval"
            /\ UNCHANGED <<reference_links, draft, nextDraft, fact_response, runCalls,
                           step, blog_post, generated_files, runBegan, crashed,
                           prompt_refs, st_error, approval_shown, discarded>>
       ELSE   LET raises == StartRaises(a)
                  gen == raises = "" /\ config.outputs # {}
                  prompted == a # "raise" /\ config.missing # "outputs"
                              /\ config.outputs # {}
                  bp == IF gen THEN text ELSE None
                  checked == bp # None
                  result == IF checked THEN fact_check_content(resp) ELSE <<FALSE, 0>>
                  after == SessionAfterStart(bp, result)
              IN /\ reference_links' = IF a = "raise" THEN reference_links
                                        ELSE IF a = "articles" THEN "links" ELSE "empty"
                 /\ prompt_refs' = IF prompted /\ raises = ""
                                    THEN ReferencesText(reference_links') ELSE ""
                 /\ draft' = bp
                 /\ nextDraft' = IF bp # None THEN nextDraft + 1 ELSE nextDraft
                 /\ fact_response' = IF checked THEN resp ELSE NoResponse
                 /\ runCalls' = {"fetch_articles"}
                        \cup (IF prompted THEN {"generate_blog_post"} ELSE {})
                        \cup (IF checked THEN {"fact_check_content"} ELSE {})
                 /\ step' = after.step
                 /\ blog_post' = after.blog_post
                 /\ generated_files' = after.generated_files
                 /\ runBegan' = IF bp # None /\ result[1]
                                 THEN [after |-> step, passes |-> mediaRun]
                                 ELSE runBegan
                 /\ discarded' = IF bp # None /\ ~result[1]
                                  THEN discarded \cup {bp} ELSE discarded
                 /\ crashed' = raises
                 /\ pc' = IF raises # "" THEN "idle" ELSE "approval"
                 /\ approval_shown' = IF raises # "" THEN FALSE ELSE approval_shown
                 /\ UNCHANGED st_error
    /\ UNCHANGED <<pin_data_list, config, button, feedback, i, env, runs, mediaRun,
                   approved, calls, approvedAt, attempted, unit_calls, pollVars,
                   fnVars>>

StartSection ==
    /\ \E a \in FetchOutcomes, text \in {None, nextDraft}, resp \in FactResponses :
          StartRun(a, text, resp)
    /\ UNCHANGED genVars

\* the feedback is not looked at
ReviseProceeds_nofeedback(b, fb) == b = "Revise Blog"

\* line 248: st.button("Revise Blog") and feedback
ReviseProceeds(b, fb) == b = "Revise Blog" /\ fb # ""

\* the rejected draft stays in the session
SessionAfterReject_kept(bp) == [step |-> "start", blog_post |-> bp]

\* lines 244-245
SessionAfterReject(bp) == [step |-> "start", blog_post |-> None]

(* lines 235-252; r is what the text generation answers to a revision *)
ApprovalRun(r) ==
    /\ pc = "approval"
    /\   LET shown == step = "approve_blog" /\ blog_post # None
             approve == shown /\ button = "Approve Blog"
             reject == shown /\ button = "Reject Blog"
             revise == shown /\ ReviseProceeds(button, feedback)
             \* line 250 reads main()'s local reference_links
             unbound == revise /\ reference_links = "unbound"
             revised == revise /\ ~unbound
         IN /\ approval_shown' = shown
            /\ step' = IF approve THEN "generate_images"
                       ELSE IF reject THEN SessionAfterReject(blog_post).step ELSE step
            /\ blog_post' = IF reject THEN SessionAfterReject(blog_post).blog_post
                            ELSE IF revised THEN r ELSE blog_post
            /\ generated_files' =
                 IF revised THEN Put(generated_files, "blog_post.txt", <<"text", r>>)
                 ELSE generated_files
            /\ approved' = IF approve THEN approved \cup {blog_post} ELSE approved
            /\ calls' = IF approve THEN ZeroCalls ELSE calls
            /\ approvedAt' = IF approve THEN mediaRun ELSE approvedAt
            /\ runCalls' = IF revised THEN runCalls \cup {"revise_blog_post"} ELSE runCalls
            /\ nextDraft' = IF revised /\ r # None THEN nextDraft + 1 ELSE nextDraft
            /\ crashed' = IF unbound THEN "UnboundLocalError" ELSE crashed
            \* st.rerun() of line 252 starts the script again, no button pressed
            /\ pc' = IF unbound THEN "idle" ELSE IF revised THEN "start" ELSE "media"
            /\ button' = IF revised THEN "none" ELSE button
            /\ reference_links' = IF revised THEN "unbound" ELSE reference_links
            /\ prompt_refs' = IF revised THEN ReferencesText(reference_links)
                              ELSE prompt_refs
            /\ discarded' = IF reject THEN discarded \cup {blog_post} ELSE discarded
    /\ UNCHANGED <<pin_data_list, config, feedback, draft, fact_response, i, env,
                   runs, mediaRun, attempted, runBegan, st_error, unit_calls,
                   pollVars, fnVars>>

ApprovalSection ==
    /\ \E r \in {None, nextDraft} : ApprovalRun(r)
    /\ UNCHANGED genVars

\* what the calls of the blog-image branch answer: the image prompt, the
\* image, the upscaled image (TRUE), or None (FALSE).  generate_image is
\* called with the prompt it is given, None included, and the image service
\* generates nothing without a prompt.
BlogEnvs == {[prompt |-> TRUE, image_bytes |-> TRUE, upscaled_image |-> TRUE],
             [prompt |-> FALSE, image_bytes |-> FALSE, upscaled_image |-> TRUE],
             [prompt |-> TRUE, image_bytes |-> FALSE, upscaled_image |-> TRUE],
             [prompt |-> TRUE, image_bytes |-> TRUE, upscaled_image |-> FALSE]}

\* the short-form loop waits for the blog image
LoopEntered_needsimage(be) ==
    /\ "pinterest" \in config.outputs
    /\ blog_post # None
    /\ "blog" \in config.outputs => be.image_bytes /\ be.upscaled_image

\* line 268
LoopEntered(be) == "pinterest" \in config.outputs /\ blog_post # None

\* lines 258-264: the calls of the blog-image branch
BlogCalls(be) ==
    <<"generate_content", "generate_image">> \o
    (IF be.image_bytes THEN <<"upscale_image">> ELSE << >>)

(* lines 255-266, and 268: the media section up to the short-form loop, whose
   range(config["post_ratio"]) of line 308 raises when the key is absent *)
MediaSection ==
    /\ pc = "media"
    /\ feedback' = ""
    /\ reference_links' = "unbound"
    /\ draft' = None
    /\ fact_response' = NoResponse
    /\ runCalls' = {}
    /\ prompt_refs' = ""
    /\ IF step # "generate_images"
       THEN /\ pc' = "idle"
            /\ UNCHANGED <<mediaRun, generated_files, calls, attempted, i, crashed>>
       ELSE \E be \in BlogEnvs :
              LET blog == "blog" \in config.outputs
                  loop == LoopEntered(be)
                  raises == IF loop /\ config.missing = "post_ratio"
                            THEN "KeyError" ELSE ""
              IN /\ mediaRun' = mediaRun + 1
                 /\ calls' = IF blog THEN Logged(calls, 0, BlogCalls(be)) ELSE calls
                 /\ attempted' = IF blog THEN {0} ELSE {}
                 /\ generated_files' =
                      IF blog /\ be.image_bytes /\ be.upscaled_image
                      THEN Put(generated_files, "blog_image_upscaled.png",
                               <<"image", mediaRun + 1>>)
                      ELSE generated_files
                 /\ i' = 0
                 /\ crashed' = raises
                 /\ pc' = IF raises # "" THEN "idle"
                          ELSE IF loop THEN "pinterest" ELSE "finish"
    /\ UNCHANGED <<step, blog_post, pin_data_list, config, button, env,
                   approval_shown, runs, nextDraft, approved, approvedAt, runBegan,
                   st_error, unit_calls, discarded, pollVars, fnVars, genVars>>

(* lines 308-347: one iteration of generate_pinterest_content's loop *)
PinterestUnit ==
    /\ pc = "pinterest"
    /\ i < config.post_ratio
    /\ \E e \in UnitEnvs :
         LET u == i + 1
             raises == UnitRaises(e)
         IN /\ env' = e
            /\ attempted' = attempted \cup {u}
            /\ calls' = Logged(calls, u, UnitCalls(e))
            /\ unit_calls' = UnitCalls(e)
            /\ crashed' = raises
            /\ pc' = IF raises # "" THEN "idle" ELSE "pinterest"
            /\ i' = IF raises # "" THEN i ELSE i + 1
            /\ pin_data_list' = IF UnitPublishes(e)
                                THEN Append(pin_data_list, PinRecord(mediaRun, u))
                                ELSE pin_data_list
            /\ generated_files' = IF UnitPublishes(e)
                                  THEN Put(generated_files, VideoName(u),
                                           <<"video", mediaRun, u>>)
                                  ELSE generated_files
    /\ UNCHANGED <<step, blog_post, config, button, feedback, reference_links, draft,
                   fact_response, approval_shown, runs, nextDraft, mediaRun, approved,
                   approvedAt, runCalls, runBegan, st_error, prompt_refs, discarded,
                   pollVars, fnVars, genVars>>

(* line 271, reached when the loop is over or was not entered *)
Finish ==
    /\ IF pc = "pinterest" THEN i >= config.post_ratio ELSE pc = "finish"
    /\ step' = "done"
    /\ pc' = "idle"
    /\ UNCHANGED <<blog_post, pin_data_list, generated_files, config, button, feedback,
                   reference_links, draft, fact_response, i, env, crashed,
                   approval_shown, runs, nextDraft, mediaRun, approved, calls,
                   approvedAt, runCalls, attempted, runBegan, st_error, prompt_refs,
                   unit_calls, discarded, pollVars, fnVars, genVars>>

Next ==
    \/ \E b \in Buttons, fb \in {"", "shorter"} : UserEvent(b, fb)
    \/ StartSection
    \/ ApprovalSection
    \/ MediaSection
    \/ PinterestUnit
    \/ Finish

Spec == Init /\ [][Next]_vars

----------------------------------------------------------------------------
(* Two pipeline runs in one session: a session that asks for one short-form *)
(* unit at most and lacks no configuration key, followed for one script run *)
(* more, which is what a second Start and a second Approve take after a     *)
(* first run that reached done.                                             *)

TwoRunsInit ==
    /\ Init
    /\ config.post_ratio = 1
    /\ config.missing = "none"

LaterEvent(b, fb) ==
    /\ runs < MaxRuns + 1
    /\ Interaction(b, fb)

TwoRunsNext ==
    \/ \E b \in Buttons, fb \in {"", "shorter"} : LaterEvent(b, fb)
    \/ StartSection
    \/ ApprovalSection
    \/ MediaSection
    \/ PinterestUnit
    \/ Finish

SpecTwoRuns == TwoRunsInit /\ [][TwoRunsNext]_vars

(* gen.py's main, run beside app.py's on the same button and the same      *)
(* answers of the services.                                                *)

\* gen.py line 186
GenPinRecord(k) == [Title |-> k, MediaURL |-> "example.com"]

\* gen.py lines 182-187: one record per unit, whatever the session holds
GenPinterestContent(list) ==
    list \o [k \in 1..config.post_ratio |-> GenPinRecord(k)]

\* gen.py lines 131-134: the session state after Start generated bp
GenSessionAfterStart(bp) ==
    IF bp # None
    THEN [step |-> "approve_blog", blog_post |-> bp,
          generated_files |-> Put(g_generated_files, "blog_post.txt", <<"text", bp>>)]
    ELSE [step |-> g_step, blog_post |-> g_blog_post,
          generated_files |-> g_generated_files]

(* gen.py lines 110-113 and 123-137 *)
GenStart(a, text) ==
    IF ~Validates(config)
    THEN /\ g_approval_shown' = FALSE
         /\ UNCHANGED <<g_step, g_blog_post, g_pin_data_list, g_generated_files,
                        g_approved>>
    ELSE IF button # "Start Generation"
    THEN UNCHANGED genVars
    ELSE LET \* fetch_articles is the same code; config["outputs"] is read at line 128
             raises == a = "raise" \/ config.missing = "outputs"
             bp == IF ~raises /\ config.outputs # {} THEN text ELSE None
             after == GenSessionAfterStart(bp)
             \* line 136
             pins == ~raises /\ "pinterest" \in config.outputs
                     /\ after.blog_post # None
             \* line 183 reads config["post_ratio"]
             keyError == pins /\ config.missing = "post_ratio"
         IN /\ g_step' = after.step
            /\ g_blog_post' = after.blog_post
            /\ g_generated_files' = after.generated_files
            /\ g_pin_data_list' = IF pins /\ ~keyError
                                   THEN GenPinterestContent(g_pin_data_list)
                                   ELSE g_pin_data_list
            /\ g_approval_shown' = IF raises \/ keyError THEN FALSE
                                    ELSE g_approval_shown
            /\ UNCHANGED g_approved

(* gen.py lines 140-157 *)
GenApproval(r) ==
    LET shown == g_step = "approve_blog" /\ g_blog_post # None
        approve == shown /\ button = "Approve Blog"
        reject == shown /\ button = "Reject Blog"
        revise == shown /\ button = "Revise Blog" /\ feedback # ""
        \* line 155 reads main()'s local reference_links, assigned at line 126
        \* under the conditions of app.py's lines 219-220
        unbound == revise /\ reference_links = "unbound"
        revised == revise /\ ~unbound
    IN /\ g_approval_shown' = shown
       /\ g_step' = IF approve THEN "generate_images"
                     ELSE IF reject THEN "start" ELSE g_step
       /\ g_blog_post' = IF reject THEN None
                          ELSE IF revised THEN r ELSE g_blog_post
       /\ g_generated_files' =
            IF revised THEN Put(g_generated_files, "blog_post.txt", <<"text", r>>)
            ELSE g_generated_files
       /\ g_approved' = IF approve THEN g_approved \cup {g_blog_post} ELSE g_approved
       /\ UNCHANGED g_pin_data_list

\* the configuration is complete, so that neither script stops at a missing key
BothInit ==
    /\ Init
    /\ config.missing = "none"

\* a button can be pressed in both pages only if both show it
BothEvent(b, fb) ==
    /\ b \in ApprovalButtons => g_approval_shown
    /\ fb # "" => g_approval_shown
    /\ UserEvent(b, fb)

BothStart ==
    \E a \in FetchOutcomes, text \in {None, nextDraft}, resp \in FactResponses :
        /\ StartRun(a, text, resp)
        /\ GenStart(a, text)

BothApproval ==
    \E r \in {None, nextDraft} :
        /\ ApprovalRun(r)
        /\ GenApproval(r)

BothNext ==
    \/ \E b \in Buttons, fb \in {"", "shorter"} : BothEvent(b, fb)
    \/ BothStart
    \/ BothApproval
    \/ MediaSection
    \/ PinterestUnit
    \/ Finish

SpecBoth == BothInit /\ [][BothNext]_vars

----------------------------------------------------------------------------
(* wait_for_video (lines 117-132), one call of it, poll by poll.  Time is  *)
(* the value of time.time(); a status request takes 0..MaxLatency time     *)
(* units and time.sleep(10) takes POLL_INTERVAL.                           *)

PollInit ==
    /\ step = "generate_images"
    /\ blog_post = 1
    /\ pin_data_list = << >>
    /\ generated_files = Put(<< >>, "blog_post.txt", <<"text", 1>>)
    /\ config = [outputs |-> {"pinterest"}, post_ratio |-> 1, missing |-> "none"]
    /\ pc = "pinterest"
    /\ button = "Approve Blog"
    /\ feedback = ""
    /\ reference_links = "unbound"
    /\ draft = None
    /\ fact_response = NoResponse
    /\ i = 0
    /\ env = NoEnv
    /\ crashed = ""
    /\ approval_shown = TRUE
    /\ runs = 2
    /\ nextDraft = 2
    /\ mediaRun = 1
    /\ approved = {1}
    /\ calls = ZeroCalls
    /\ approvedAt = 0
    /\ runCalls = {}
    /\ attempted = {}
    /\ runBegan = [after |-> "start", passes |-> 0]
    /\ st_error = ""
    /\ prompt_refs = ""
    /\ unit_calls = << >>
    /\ discarded = {}
    /\ wv_pc = "call"
    /\ now \in 0..MaxLatency
    /\ start_time = 0
    /\ polls = 0
    /\ last_poll = 0
    /\ wv_status = "none"
    /\ wv_return = "none"
    /\ wv_error = ""
    /\ FnIdle
    /\ GenInit

\* what one status request can answer: a 200 response with one of the statuses,
\* a 200 response with any other status, a non-200 response, or a transport error
PollResponses == {"completed", "failed", "pending", "non200", "exception"}

(* line 120 *)
WvEnter ==
    /\ wv_pc = "call"
    /\ start_time' = now
    /\ wv_pc' = "check"
    /\ UNCHANGED <<now, polls, last_poll, wv_status, wv_return, wv_error, appVars, fnVars, genVars>>

\* the loop without its timeout
LoopContinues_forever(t, t0) == TRUE

\* line 121: the loop condition
LoopContinues(t, t0) == t - t0 < POLL_TIMEOUT

(* line 121, and lines 131-132 when the condition fails *)
WvCheck ==
    /\ wv_pc = "check"
    /\ IF LoopContinues(now, start_time)
       THEN /\ wv_pc' = "poll"
            /\ UNCHANGED <<wv_return, wv_error>>
       ELSE /\ wv_pc' = "done"
            /\ wv_return' = "None"
            /\ wv_error' = "Video rendering timed out."
    /\ UNCHANGED <<now, start_time, polls, last_poll, wv_status, appVars, fnVars, genVars>>

(* lines 122-129: one status request, taking d time units and answering r *)
WvPoll(r, d) ==
    /\ wv_pc = "poll"
    /\ polls' = polls + 1
    /\ last_poll' = now
    /\ now' = now + d
    /\ wv_status' = r
    /\ wv_pc' = IF r \in {"completed", "failed", "exception"} THEN "done" ELSE "sleep"
    /\ wv_return' = IF r = "completed" THEN "video_url"
                    ELSE IF r = "failed" THEN "None"
                    ELSE IF r = "exception" THEN "raise"
                    ELSE wv_return
    /\ wv_error' = IF r = "failed" THEN "Video rendering failed." ELSE wv_error
    /\ UNCHANGED <<start_time, appVars, fnVars, genVars>>

\* line 130
SleepTime == POLL_INTERVAL

(* line 130 *)
WvSleep ==
    /\ wv_pc = "sleep"
    /\ now' = now + SleepTime
    /\ wv_pc' = "check"
    /\ UNCHANGED <<start_time, polls, last_poll, wv_status, wv_return, wv_error, appVars, fnVars, genVars>>

PollNext ==
    \/ WvEnter
    \/ WvCheck
    \/ \E r \in PollResponses, d \in 0..MaxLatency : WvPoll(r, d)
    \/ WvSleep

SpecPoll == PollInit /\ [][PollNext]_vars

\* the script runs on: a step of wait_for_video that can be taken is taken
FairPoll == SpecPoll /\ WF_vars(PollNext)

----------------------------------------------------------------------------
(* fetch_articles and fact_check_content on their own: the session is as   *)
(* constructed, the function is called once on an input drawn at the       *)
(* start.                                                                  *)

AtRest ==
    /\ GenInit
    /\ step = "start"
    /\ blog_post = None
    /\ pin_data_list = << >>
    /\ generated_files = << >>
    /\ config = [outputs |-> {"blog", "pinterest"}, post_ratio |-> 1, missing |-> "none"]
    /\ pc = "idle"
    /\ button = "none"
    /\ feedback = ""
    /\ reference_links = "unbound"
    /\ draft = None
    /\ fact_response = NoResponse
    /\ i = 0
    /\ env = NoEnv
    /\ crashed = ""
    /\ approval_shown = FALSE
    /\ runs = 0
    /\ nextDraft = 1
    /\ mediaRun = 0
    /\ approved = {}
    /\ calls = ZeroCalls
    /\ approvedAt = 0
    /\ runCalls = {}
    /\ attempted = {}
    /\ runBegan = [after |-> "start", passes |-> 0]
    /\ st_error = ""
    /\ prompt_refs = ""
    /\ unit_calls = << >>
    /\ discarded = {}
    /\ wv_pc = "off"
    /\ now = 0
    /\ start_time = 0
    /\ polls = 0
    /\ last_poll = 0
    /\ wv_status = "none"
    /\ wv_return = "none"
    /\ wv_error = ""

FetchInit ==
    /\ AtRest
    /\ upstream \in Upstreams
    /\ fetched = NotFetched
    /\ fc_response = << >>
    /\ fc_result = NotChecked

(* line 219: article_data = fetch_articles(config) *)
FetchCall ==
    /\ ~fetched.called
    /\ fetched' = fetch_articles(upstream)
    /\ UNCHANGED <<upstream, fc_response, fc_result, appVars, pollVars, genVars>>

SpecFetch == FetchInit /\ [][FetchCall]_vars

FactInit ==
    /\ AtRest
    /\ upstream = NoUpstream
    /\ fetched = NotFetched
    /\ fc_response \in ResponseTexts
    /\ fc_result = NotChecked

(* line 226: passed, score, explanation = fact_check_content(...) *)
FactCall ==
    /\ ~fc_result.called
    /\ LET result == fact_check_content(ParseResponse(fc_response))
       IN fc_result' = [called |-> TRUE, passed |-> result[1], confidence |-> result[2]]
    /\ UNCHANGED <<upstream, fetched, fc_response, appVars, pollVars, genVars>>

SpecFact == FactInit /\ [][FactCall]_vars

----------------------------------------------------------------------------
(* Properties *)

\* a pinterest unit's loop body runs in this step
UnitStep == pc = "pinterest" /\ i < config.post_ratio

\* an external media call is made, or a post record appended, in this step
MediaActivity ==
    \/ mediaRun' > mediaRun
    \/ \E u \in 0..MaxPosts : calls'[u] > calls[u]
    \/ attempted' \ attempted # {}
    \/ Len(pin_data_list') > Len(pin_data_list)

\* C1: no media call is made and no post record is appended unless Approve was
\* pressed on the draft held in session state and the step is generate_images.
C1_MediaOnlyAfterApprove ==
    [][MediaActivity =>
        /\ step = "generate_images"
        /\ blog_post # None
        /\ blog_post \in approved
        /\ blog_post' = blog_post]_vars

\* C1 witness: a run that published a unit of an approved draft
C1_Witness ==
    /\ pc = "idle"
    /\ step = "done"
    /\ blog_post \in approved
    /\ Len(pin_data_list) > 0

\* the fact check of response r did not pass: the call failed, the response
\* cannot be parsed, or the confidence is below 60
NotPassed(r) == ~r.text \/ ~r.parsed \/ ~r.delim \/ r.conf < 60

\* C2: when Start generates a draft whose fact check does not pass, the draft is
\* not stored, not written to blog_post.txt, and the step and the manifest stay
\* as they were before Start.
C2_FailedDraftDiscarded ==
    [][(pc = "start" /\ button = "Start Generation" /\ draft' # None
        /\ NotPassed(fact_response')) =>
        /\ blog_post' = blog_post
        /\ blog_post' # draft'
        /\ generated_files' = generated_files
        /\ \A f \in DOMAIN generated_files' : generated_files'[f] # <<"text", draft'>>
        /\ step' = step]_vars

\* C2 witness: a second Start whose draft scored below the threshold, while an
\* earlier draft is awaiting approval
C2_Witness ==
    /\ pc = "approval"
    /\ button = "Start Generation"
    /\ draft # None
    /\ fact_response.parsed /\ fact_response.delim /\ fact_response.conf < 60
    /\ step = "approve_blog"
    /\ blog_post # None
    /\ blog_post # draft

\* C3 (as claimed): Revise with non-empty feedback while a draft awaits approval
\* calls revise_blog_post, stores the returned text as the draft and as
\* blog_post.txt, stays in approve_blog, and runs no fact check.
C3_ReviseReplacesDraft ==
    [][(pc = "approval" /\ button = "Revise Blog" /\ feedback # ""
        /\ step = "approve_blog" /\ blog_post # None) =>
        /\ crashed' = ""
        /\ "revise_blog_post" \in runCalls'
        /\ "fact_check_content" \notin runCalls'
        /\ blog_post' # blog_post
        /\ "blog_post.txt" \in DOMAIN generated_files'
        /\ generated_files'["blog_post.txt"] = <<"text", blog_post'>>
        /\ step' = "approve_blog"]_vars

\* C4 (as claimed): a unit whose generation response is None or lacks a label
\* raises nothing; the unit is skipped and the loop goes on to the next unit.
C4_MalformedUnitSkipped ==
    [][(UnitStep /\ env'.text \in {"None"} \cup MalformedTexts) =>
        /\ crashed' = ""
        /\ pc' = "pinterest"
        /\ i' = i + 1
        /\ pin_data_list' = pin_data_list
        /\ generated_files' = generated_files]_vars

\* the unit's media sub-pipeline failed at some step
MediaFailed(e) ==
    /\ e.text = "ok"
    /\ \/ ~e.image_bytes \/ ~e.upscaled_image \/ ~e.image_uid \/ ~e.render_uid
       \/ e.video_url # "url" \/ ~e.video_bytes \/ ~e.pin_url

\* the branches the configuration asks for: 0 is the blog image
Requested ==
    (IF "blog" \in config.outputs THEN {0} ELSE {})
    \cup (IF "pinterest" \in config.outputs THEN 1..config.post_ratio ELSE {})

\* C5 (as claimed): a unit whose media sub-pipeline fails at any step adds no
\* record and no video and does not stop the loop, and a pass through the
\* short-form loop ends only at done, with every unit attempted.
C5_UnitFailureIsolated ==
    [][/\ (UnitStep /\ MediaFailed(env')) =>
            /\ crashed' = ""
            /\ pc' = "pinterest"
            /\ i' = i + 1
            /\ pin_data_list' = pin_data_list
            /\ generated_files' = generated_files
       /\ (pc = "pinterest" /\ pc' = "idle") =>
            /\ step' = "done"
            /\ 1..config.post_ratio \subseteq attempted']_vars

\* C7 (as claimed), in the form a finite run refutes: with a configuration
\* that lacks nothing, the script run in which the step is generate_images
\* does not end before the step is done, and the step becomes done only when
\* every requested branch has been attempted.
C7_ApprovedRunReachesDone ==
    config.missing = "none" =>
        /\ pc = "idle" => step # "generate_images"
        /\ (pc = "idle" /\ step = "done" /\ button = "Approve Blog") =>
                attempted = Requested

\* the post records of unit u appended since Approve or Start was last pressed
EpochRecords(u) ==
    {k \in DOMAIN pin_data_list :
        pin_data_list[k].Title[2] = u /\ pin_data_list[k].Title[1] > approvedAt}

\* C8 (as claimed): with a configuration that lacks nothing, in a script run
\* that no button press started, image generation has been invoked at most
\* once per unit and for the blog image since the caller last pressed Approve
\* or Start, and no unit has been published twice since then.
C8_NoRepeatedCalls ==
    (config.missing = "none" /\ button = "none") =>
        \A u \in 0..MaxPosts :
            /\ calls[u] <= 1
            /\ Cardinality(EpochRecords(u)) <= 1

\* the publish call of the unit was made and returned a URL
PublishReturnedUrl(e) ==
    /\ e.text = "ok" /\ e.image_bytes /\ e.upscaled_image /\ e.image_uid
    /\ e.render_uid /\ e.video_url = "url" /\ e.video_bytes /\ e.pin_url

\* the publish call of the unit was made and returned None
PublishFailed(e) ==
    /\ e.text = "ok" /\ e.image_bytes /\ e.upscaled_image /\ e.image_uid
    /\ e.render_uid /\ e.video_url = "url" /\ e.video_bytes /\ ~e.pin_url

\* C9: a unit's post record and its video are added together, exactly when the
\* publish call returned a URL; when publish fails neither is added and the loop
\* goes on with the next unit.  No other step touches pin_data_list.
C9_RecordAndVideoTogether ==
    [][IF UnitStep
       THEN /\ PublishReturnedUrl(env') =>
                /\ pin_data_list' = Append(pin_data_list, PinRecord(mediaRun, i + 1))
                /\ VideoName(i + 1) \in DOMAIN generated_files'
                /\ generated_files'[VideoName(i + 1)] = <<"video", mediaRun, i + 1>>
            /\ ~PublishReturnedUrl(env') =>
                /\ pin_data_list' = pin_data_list
                /\ generated_files' = generated_files
            /\ PublishFailed(env') =>
                /\ crashed' = ""
                /\ pc' = "pinterest"
                /\ i' = i + 1
       ELSE pin_data_list' = pin_data_list]_vars

\* C9 witness: unit 1's publish failed, the loop went on and unit 2 was published
C9_Witness ==
    /\ pc = "pinterest"
    /\ i = 2
    /\ PublishReturnedUrl(env)
    /\ Len(pin_data_list) = 1
    /\ pin_data_list[1].Title[2] = 2
    /\ VideoName(2) \in DOMAIN generated_files
    /\ VideoName(1) \notin DOMAIN generated_files

OfThisRun(payload) ==
    IF payload[1] = "text" THEN payload[2] = blog_post
    ELSE payload[2] > runBegan.passes

\* C11 (as claimed): when a run whose Start found the session at start or at
\* done has reached done, generated_files and pin_data_list hold only what
\* that run produced.
C11_RunScopedState ==
    (step = "done" /\ runBegan.after \in {"start", "done"}) =>
        /\ \A f \in DOMAIN generated_files : OfThisRun(generated_files[f])
        /\ \A k \in DOMAIN pin_data_list :
              pin_data_list[k].Title[1] > runBegan.passes

\* the article's title or description contains, whatever the case, a term of
\* the vocabulary
Relevant(article) ==
    \E k \in DOMAIN required_keywords, f \in 1..2 :
        /\ article[f] # NullText
        /\ Occurs(required_keywords[k], lower(article[f]))

\* C12 (as claimed): on a successful search fetch_articles raises nothing and
\* returns the first relevant articles of the upstream list, in upstream
\* order, at most 5 of them, and the empty list when the upstream list is
\* empty or holds no relevant article.
C12_FirstFiveRelevant ==
    (fetched.called /\ upstream.ok) =>
        LET all == SelectSeq([k \in DOMAIN upstream.articles |-> k],
                             LAMBDA k : Relevant(upstream.articles[k]))
        IN /\ fetched.raised = ""
           /\ Len(fetched.returned) <= 5
           /\ \A k \in DOMAIN fetched.returned :
                 Relevant(upstream.articles[fetched.returned[k]])
           /\ fetched.returned = SubSeq(all, 1, Len(fetched.returned))
           /\ Len(all) <= 5 => fetched.returned = all

\* C13 (as claimed): on a transport or HTTP error fetch_articles sends one
\* request and its outcome differs from that of a successful search with no
\* result, which returns the empty list and raises nothing.
C13_ErrorDistinguishable ==
    (fetched.called /\ ~upstream.ok) =>
        /\ fetched.requests = 1
        /\ fetched.raised # "" \/ fetched.returned # << >>

\* C14: when Start's reference search yields no reference (and the
\* configuration lacks nothing and asks for an output), the draft is still
\* generated, with "Use general knowledge." in place of the reference URLs,
\* the run goes on, and a draft that passes the fact check is stored and
\* awaits approval.
C14_EmptyReferencesProceed ==
    [][(pc = "start" /\ button = "Start Generation" /\ config.missing = "none"
        /\ config.outputs # {} /\ reference_links' = "empty") =>
        /\ "generate_blog_post" \in runCalls'
        /\ prompt_refs' = "Use general knowledge."
        /\ crashed' = ""
        /\ pc' = "approval"
        /\ (draft' # None /\ ~NotPassed(fact_response')) =>
              /\ step' = "approve_blog"
              /\ blog_post' = draft']_vars

\* C14 witness: a Start without references whose draft awaits approval
C14_Witness ==
    /\ pc = "approval"
    /\ button = "Start Generation"
    /\ reference_links = "empty"
    /\ prompt_refs = "Use general knowledge."
    /\ draft # None
    /\ blog_post = draft
    /\ step = "approve_blog"

\* C18: in a run started by Revise with empty feedback while a draft awaits
\* approval, no revision is requested, nothing is generated, and the draft,
\* the manifest and the step stay as they are.
C18_EmptyFeedbackNoRevise ==
    [][(pc # "idle" /\ button = "Revise Blog" /\ feedback = ""
        /\ step = "approve_blog" /\ blog_post # None) =>
        /\ crashed' = ""
        /\ "revise_blog_post" \notin runCalls'
        /\ nextDraft' = nextDraft
        /\ ~MediaActivity
        /\ blog_post' = blog_post
        /\ generated_files' = generated_files
        /\ step' = step]_vars

\* C18 witness: such a run has ended
C18_Witness ==
    /\ pc = "idle"
    /\ button = "Revise Blog"
    /\ feedback = ""
    /\ crashed = ""
    /\ step = "approve_blog"
    /\ blog_post # None

\* C19: Reject on the draft awaiting approval sets the step to start and clears
\* the draft, with no media activity; and while no draft is held nothing is
\* approved, revised or generated, the step is start, and the only way to a
\* draft is a Start whose newly generated text passes the fact check.
C19_RejectReturnsToIdle ==
    [][/\ (pc = "approval" /\ button = "Reject Blog" /\ step = "approve_blog"
           /\ blog_post # None) =>
            /\ step' = "start"
            /\ blog_post' = None
       /\ blog_post = None =>
            /\ step = "start"
            /\ ~MediaActivity
            /\ approved' = approved
            /\ "revise_blog_post" \notin runCalls'
            /\ blog_post' = None => step' = "start"
            /\ blog_post' # None =>
                  /\ pc = "start" /\ button = "Start Generation"
                  /\ blog_post' = nextDraft
                  /\ blog_post' = draft'
                  /\ ~NotPassed(fact_response')
                  /\ step' = "approve_blog"]_vars

\* C19 witness: after a Reject, Approve was pressed on the page still showing
\* the rejected draft, and the run it started did nothing
C19_Witness ==
    /\ pc = "idle"
    /\ button = "Approve Blog"
    /\ nextDraft > 1
    /\ blog_post = None
    /\ step = "start"
    /\ approved = {}
    /\ mediaRun = 0

\* C20 (as claimed): a Start with a configuration that lacks a field the
\* pipeline reads stops at the validation error, calls nothing and raises
\* nothing.
C20_ValidationBeforeCalls ==
    [][(pc = "start" /\ button = "Start Generation" /\ config.missing # "none") =>
        /\ st_error' = "Missing required fields in config."
        /\ runCalls' = {}
        /\ crashed' = ""
        /\ pc' = "idle"]_vars

\* the response reads "Confidence: <n> - <explanation>"
WellFormed(t) ==
    /\ Len(t) >= 4
    /\ t[1] = "Confidence:"
    /\ t[2] \in IntWords
    /\ t[3] = "-"

\* the integer n that the numeral <n> of a response writes
NumberWritten ==
    [w \in {"85", "59", "060", "-5", "150"} |->
        IF w = "85" THEN 85 ELSE IF w = "59" THEN 59 ELSE IF w = "060" THEN 60
        ELSE IF w = "-5" THEN 0 - 5 ELSE 150]

\* C15: a response "Confidence: <n> - <explanation>" gives confidence n and
\* passed exactly when n >= 60, and whatever the response, passed is true
\* exactly when the returned confidence is at least 60.
C15_ConfidenceAndThreshold ==
    fc_result.called =>
        /\ fc_result.passed <=> fc_result.confidence >= 60
        /\ WellFormed(fc_response) =>
              /\ fc_result.confidence = NumberWritten[fc_response[2]]
              /\ fc_result.passed <=> NumberWritten[fc_response[2]] >= 60

\* C15 witness: "Confidence: 85 - looks" was checked: passed, confidence 85
C15_Witness ==
    /\ fc_result.called
    /\ fc_response = <<"Confidence:", "85", "-", "looks">>
    /\ fc_result.passed
    /\ fc_result.confidence = 85

\* the word after the first "Confidence:" of t, if any, is an integer
IntegerFollowsMarker(t) ==
    \E k \in DOMAIN t :
        /\ t[k] = "Confidence:"
        /\ \A j \in 1..(k - 1) : t[j] # "Confidence:"
        /\ k + 1 <= Len(t)
        /\ t[k + 1] \in IntWords

\* C16: a non-empty response without an integer after "Confidence:", or
\* without the " - " delimiter, gives passed = false and confidence = 50.
C16_UnparseableGivesFifty ==
    (fc_result.called /\ fc_response # << >>
     /\ (~IntegerFollowsMarker(fc_response) \/ ~HasDelimiter(fc_response))) =>
        /\ ~fc_result.passed
        /\ fc_result.confidence = 50

\* C16 witness: "Confidence: 85 looks" has the integer but no delimiter
C16_Witness ==
    /\ fc_result.called
    /\ fc_response = <<"Confidence:", "85", "looks">>
    /\ ~fc_result.passed
    /\ fc_result.confidence = 50

\* C17 (as claimed): the returned confidence lies in 0..100.
C17_ConfidenceInRange ==
    fc_result.called => fc_result.confidence \in 0..100

\* C21: when the blog output and the short-form output are both asked for (by
\* a configuration that lacks nothing) and the pass through the blog-image
\* branch yields no image, nothing is added to the manifest, nothing is raised
\* and the short-form loop is entered in the same run.
C21_BlogImageFailureIsolated ==
    [][(pc = "media" /\ step = "generate_images" /\ config.missing = "none"
        /\ config.outputs = {"blog", "pinterest"}
        /\ ~(/\ "blog_image_upscaled.png" \in DOMAIN generated_files'
             /\ generated_files'["blog_image_upscaled.png"] = <<"image", mediaRun'>>)) =>
        /\ generated_files' = generated_files
        /\ 0 \in attempted'
        /\ crashed' = ""
        /\ pc' = "pinterest"
        /\ i' = 0]_vars

\* C21 witness: a run ended at done with every short-form unit published and
\* no blog image, though the blog output was asked for
C21_Witness ==
    /\ pc = "idle"
    /\ step = "done"
    /\ config.outputs = {"blog", "pinterest"}
    /\ "blog_image_upscaled.png" \notin DOMAIN generated_files
    /\ Len(pin_data_list) = config.post_ratio
    /\ \A u \in 1..config.post_ratio : VideoName(u) \in DOMAIN generated_files

\* the steps of a short-form unit after its text was generated, in the order
\* the claim gives
UnitOrder ==
    <<"generate_image", "upscale_image", "upload_image_to_bannerbear",
      "create_video_rendering", "wait_for_video", "download_video",
      "upload_video_to_pinterest">>

\* step k of UnitOrder succeeded, by what the service answered
StepSucceeded(e, k) ==
    CASE k = 1 -> e.image_bytes
      [] k = 2 -> e.upscaled_image
      [] k = 3 -> e.image_uid
      [] k = 4 -> e.render_uid
      [] k = 5 -> e.video_url = "url"
      [] k = 6 -> e.video_bytes
      [] k = 7 -> e.pin_url

\* C22: the calls a unit makes after its text generation are a prefix of
\* image generation, upscale, upload, render submission, polling, download,
\* publish; a step is called only if every step before it succeeded, and the
\* step after a successful one is called.
C22_UnitStepsInOrder ==
    (env.text # "not_called") =>
        LET steps == SubSeq(unit_calls, 2, Len(unit_calls))
        IN /\ unit_calls # << >>
           /\ unit_calls[1] = "generate_content"
           /\ Len(steps) <= Len(UnitOrder)
           /\ steps = SubSeq(UnitOrder, 1, Len(steps))
           /\ \A k \in DOMAIN steps : \A j \in 1..(k - 1) : StepSucceeded(env, j)
           /\ (env.text = "ok" /\ Len(steps) < Len(UnitOrder)) =>
                 /\ Len(steps) >= 1
                 /\ ~StepSucceeded(env, Len(steps))

\* C22 witness: a unit whose render submission failed: four steps, no polling
C22_Witness ==
    /\ env.text = "ok"
    /\ ~env.render_uid
    /\ unit_calls = <<"generate_content", "generate_image", "upscale_image",
                      "upload_image_to_bannerbear", "create_video_rendering">>

\* C24: whenever the step is done, blog_post.txt in generated_files is the text
\* of the session's blog_post, that draft was approved, and it is none of the
\* drafts that failed the fact check or were rejected.
C24_ExportedTextIsApproved ==
    step = "done" =>
        /\ blog_post # None
        /\ "blog_post.txt" \in DOMAIN generated_files
        /\ generated_files["blog_post.txt"] = <<"text", blog_post>>
        /\ blog_post \in approved
        /\ blog_post \notin discarded

\* C24 witness: a first draft was discarded, a later one approved and exported
C24_Witness ==
    /\ step = "done"
    /\ pc = "idle"
    /\ discarded # {}
    /\ blog_post \in approved
    /\ generated_files["blog_post.txt"] = <<"text", blog_post>>

\* C25 (as claimed): after any script run of the two mains on the same button
\* presses and service answers, gen.py's step equals app.py's, the draft
\* either session holds is none whose fact check failed, and either list of
\* short-form records is empty until a draft has been approved.
C25_GenMatchesApp ==
    pc = "idle" =>
        /\ g_step = step
        /\ blog_post # None => blog_post \notin discarded
        /\ g_blog_post # None => g_blog_post \notin discarded
        /\ pin_data_list # << >> => approved # {}
        /\ g_pin_data_list # << >> => g_approved # {}

\* what wait_for_video hands to its caller when the loop ran out (line 132)
TimedOutReturn == "None"

\* C23 (as claimed): wait_for_video returns a URL only when a request sent
\* before the timeout saw completed, ends at the first request that sees
\* failed, and what it returns for a failed job differs from what it returns
\* for a timed-out one.
C23_FailedAndTimedOutDistinct ==
    /\ wv_return = "video_url" =>
          /\ wv_status = "completed"
          /\ last_poll - start_time < POLL_TIMEOUT
    /\ wv_status = "failed" => wv_pc = "done"
    /\ (wv_pc = "done" /\ wv_status = "failed") => wv_return # TimedOutReturn

\* C6: wait_for_video sends no status request once 600 time units have passed
\* since it started, sends requests at least 10 time units apart, at most 60 of
\* them, ends, and when no request saw completed or failed (or raised) it
\* returns None after reporting the timeout.
C6_PollingTerminates ==
    /\ [](wv_pc = "poll" => now - start_time < 600)
    /\ [](wv_pc = "poll" /\ polls >= 1 => now - last_poll >= 10)
    /\ [](polls <= 60)
    /\ [](wv_pc = "done" /\ wv_status \notin {"completed", "failed", "exception"} =>
            /\ wv_return = "None"
            /\ wv_error = "Video rendering timed out."
            /\ now - start_time >= 600)
    /\ <>(wv_pc = "done")

\* C6 witness: sixty requests, none of them conclusive, and the timeout reported
C6_Witness ==
    /\ wv_pc = "done"
    /\ polls = 60
    /\ wv_status \in {"pending", "non200"}
    /\ wv_error = "Video rendering timed out."

====
